---------------------------- MODULE Spec2Model ----------------------------
(***************************************************************************)
(* A model of markdown2docx.py: the AST normalizers, the inline and block  *)
(* renderers and the convert_file / main orchestration.                    *)
(*                                                                         *)
(* Data representation.                                                    *)
(*   - An AST node is a record whose fields are exactly the keys of the    *)
(*     Python dict; an absent key is an absent field (see Get).            *)
(*   - A Python string that the code inspects (raw/text payloads, info     *)
(*     strings, alert types) is a sequence of one-character strings; ""    *)
(*     is <<>> and truthiness is non-emptiness.                            *)
(*   - An image reference (url/src) is an atomic string, "" when empty.    *)
(*   - The output document is a container record whose body is the         *)
(*     sequence of block elements appended so far.  A raised exception is  *)
(*     kept in the err field and stops everything after it.                *)
(*   - run.bold / run.italic / run.font.strike are BOOLEAN; FALSE stands   *)
(*     for both python-docx's None (never set) and an explicit False.      *)
(***************************************************************************)
EXTENDS Integers, Sequences, FiniteSets, TLC

VARIABLES
    pc,        \* position of the running program (main loop / one call)
    call,      \* function-level specifications: the call being made
    result,    \* function-level specifications: what the call returned
    files,     \* main: the files argument
    fidx,      \* main: index of the file being converted
    tokens,    \* convert_file: the token list as it passes through the passes
    parsed,    \* convert_file: the token list as returned by the parser
    doc,       \* convert_file: the Document being built
    steps,     \* convert_file: the steps completed so far, in order
    written,   \* the output directory: names of the files saved
    echoed,    \* main: the "Converted:" lines printed
    fs,        \* the file system: the set of image paths that exist
    mmdc       \* the diagram tool: "ok", "missing" or "fails"

vars == <<pc, call, result, files, fidx, tokens, parsed, doc, steps, written, echoed, fs, mmdc>>

----------------------------------------------------------------------------
(* Python dict and string helpers                                          *)

\* dict.get(k, d)
Get(n, k, d) == IF k \in DOMAIN n THEN n[k] ELSE d

\* x or y, on strings
Or(x, y) == IF x # <<>> THEN x ELSE y

NoErr == "none"

\* extract_text: the first of raw, text, flattened children that is non-empty
RECURSIVE extract_text(_)
extract_text(children) ==
    IF children = <<>> THEN <<>>
    ELSE LET child == Head(children)
             part  == IF Get(child, "raw", <<>>) # <<>> THEN child.raw
                      ELSE IF Get(child, "text", <<>>) # <<>> THEN child.text
                      ELSE IF Get(child, "children", <<>>) # <<>>
                           THEN extract_text(child.children)
                      ELSE <<>>
         IN part \o extract_text(Tail(children))

----------------------------------------------------------------------------
(* The document builder (python-docx) as the code uses it                  *)

CODE_FONT == "Courier New"
CODE_BG_COLOR == "F2F2F2"

\* A block container: the Document itself, its _Body (a paragraph's _parent)
\* or a table _Cell.  body holds the block elements appended to it.
Container(kind) == [kind |-> kind, body |-> <<>>, err |-> NoErr]

Raise(c, e) == [c EXCEPT !.err = e]

Append1(c, el) == [c EXCEPT !.body = Append(@, el)]

\* A paragraph being filled: its runs and the container it belongs to
\* (only what is appended to the container after the paragraph is kept).
NewParagraph(parentKind) == [runs |-> <<>>, parent |-> Container(parentKind)]

\* paragraph.add_run(text) followed by the attribute assignments
Run(text, bold, italic, strike, font) ==
    [kind |-> "run", text |-> text, bold |-> bold, italic |-> italic,
     strike |-> strike, font |-> font, color |-> ""]

AddRun(paragraph, run) == [paragraph EXCEPT !.runs = Append(@, run)]

\* doc.add_paragraph(text) / doc.add_paragraph(style=...)
Paragraph(style, runs) ==
    [kind |-> "paragraph", style |-> style, runs |-> runs, shading |-> "",
     border |-> <<>>, indent |-> FALSE, align |-> "none"]

\* os.path.isabs on the references the model uses
IsAbs(url) ==
    url \in {"/abs/pic.png", "/tmp/markdown2docx/diagram_1.png", "/tmp/markdown2docx/diagram_2.png",
             "/tmp/markdown2docx/diagram_3.png", "/tmp/markdown2docx/diagram_4.png"}

resolve_image_path(url, base_dir) == IF IsAbs(url) THEN <<url>> ELSE <<base_dir, url>>

\* add_image without the existence test: opening the missing file raises
add_image_unguarded(d, url, base_dir) ==
    LET img_path == resolve_image_path(url, base_dir) IN
    IF img_path \notin fs
    THEN Raise(d, "FileNotFoundError")
    ELSE IF d.kind = "Document"
         THEN Append1(d, [kind |-> "picture", path |-> img_path])
         ELSE Raise(d, "AttributeError")

\* add_image: a placeholder paragraph when the file is missing; otherwise
\* doc.add_picture, which only the Document offers (a _Body or a _Cell has
\* add_paragraph but no add_picture: AttributeError).
add_image(d, url, base_dir) ==
    LET img_path == resolve_image_path(url, base_dir) IN
    IF img_path \notin fs
    THEN Append1(d, Paragraph("Normal",
             <<Run(<<"[Image not found: ", url, "]">>, FALSE, FALSE, FALSE, "")>>))
    ELSE IF d.kind = "Document"
         THEN Append1(d, [kind |-> "picture", path |-> img_path])
         ELSE Raise(d, "AttributeError")

----------------------------------------------------------------------------
(* render_inline                                                           *)

\* The flags a strong / emphasis / strikethrough wrapper passes down
ChildFlagsNoInherit(t, bold, italic, strike) ==
    [bold |-> (t = "strong"), italic |-> (t = "emphasis"), strike |-> (t = "strikethrough")]

ChildFlags(t, bold, italic, strike) ==
    [bold   |-> IF t = "strong" THEN TRUE ELSE bold,
     italic |-> IF t = "emphasis" THEN TRUE ELSE italic,
     strike |-> IF t = "strikethrough" THEN TRUE ELSE strike]

\* raw or text or children, flattened when it is a list
InlineText(child) ==
    LET raw == Or(Get(child, "raw", <<>>), Get(child, "text", <<>>))
    IN IF raw # <<>> THEN raw ELSE extract_text(Get(child, "children", <<>>))

RECURSIVE render_inline(_, _, _, _, _, _)
RECURSIVE render_inline_child(_, _, _, _, _, _)
render_inline_child(paragraph, child, base_dir, bold, italic, strike) ==
    LET t == child.type IN
    CASE t = "text" ->
            AddRun(paragraph, Run(InlineText(child), bold, italic, strike, ""))
      [] t \in {"strong", "emphasis", "strikethrough"} ->
            LET f == ChildFlags(t, bold, italic, strike)
            IN render_inline(paragraph, Get(child, "children", <<>>), base_dir,
                             f.bold, f.italic, f.strike)
      [] t = "codespan" ->
            AddRun(paragraph, Run(InlineText(child), bold, italic, FALSE, CODE_FONT))
      [] t = "link" ->
            LET attrs == Get(child, "attrs", <<>>)
                url == IF Get(attrs, "url", "") # "" THEN attrs.url ELSE Get(attrs, "href", "")
            IN IF url # ""
               THEN AddRun(paragraph, [kind |-> "hyperlink", url |-> url,
                                      text |-> extract_text(Get(child, "children", <<>>))])
               ELSE paragraph
      [] t = "image" ->
            LET src == Get(Get(child, "attrs", <<>>), "src", "")
            IN IF src # ""
               THEN [paragraph EXCEPT !.parent = add_image(@, src, base_dir)]
               ELSE paragraph
      [] t = "softbreak" ->
            AddRun(paragraph, Run(<<"\n">>, FALSE, FALSE, FALSE, ""))
      [] t = "linebreak" ->
            AddRun(paragraph, [kind |-> "break"])
      [] OTHER -> paragraph

render_inline(paragraph, children, base_dir, bold, italic, strike) ==
    IF children = <<>> \/ paragraph.parent.err # NoErr
    THEN paragraph
    ELSE render_inline(
             render_inline_child(paragraph, Head(children), base_dir, bold, italic, strike),
             Tail(children), base_dir, bold, italic, strike)

----------------------------------------------------------------------------
(* String functions and the syntax lexer (pygments) as the code uses them  *)

NL == "\n"

EndsWithNL(s) == Len(s) > 0 /\ s[Len(s)] = NL

IsSpace(c) == c \in {" ", "\t", NL}

RECURSIVE LStrip(_)
LStrip(s) == IF s # <<>> /\ IsSpace(Head(s)) THEN LStrip(Tail(s)) ELSE s

RECURSIVE TakeWord(_)
TakeWord(s) == IF s = <<>> \/ IsSpace(Head(s)) THEN <<>> ELSE <<Head(s)>> \o TakeWord(Tail(s))

\* info.split(): no word at all when the string is only whitespace
HasWord(info) == LStrip(info) # <<>>

\* info.split()[0], defined when HasWord(info)
FirstWord(info) == TakeWord(LStrip(info))

\* text.strip("\n")
RECURSIVE StripLeadingNL(_)
StripLeadingNL(s) == IF s # <<>> /\ Head(s) = NL THEN StripLeadingNL(Tail(s)) ELSE s

RECURSIVE StripTrailingNL(_)
StripTrailingNL(s) ==
    IF EndsWithNL(s) THEN StripTrailingNL(SubSeq(s, 1, Len(s) - 1)) ELSE s

\* Lexer.get_tokens preprocessing with the default options stripnl=True,
\* ensurenl=True: leading and trailing newlines are removed, then one newline
\* is appended when the text does not end with one.
LexerInput(text) ==
    LET t == StripTrailingNL(StripLeadingNL(text))
    IN IF EndsWithNL(t) THEN t ELSE t \o <<NL>>

\* The names get_lexer_by_name knows (every other name raises ClassNotFound)
KnownLexers == {<<"p", "y">>}

\* The token type of one source character under the known lexer: "k" stands
\* for a keyword, "c" for a comment, anything else is a name or whitespace.
\* Token types are paths below Token; <<>> is Token itself.
CharTokenType(c) ==
    CASE c = "k" -> <<"Keyword">>
      [] c = "c" -> <<"Comment", "Single">>
      [] c = NL -> <<"Text">>
      [] OTHER -> <<"Name">>

\* lex(raw, lexer): (token_type, value) pairs whose values concatenate to the
\* preprocessed text.  TextLexer yields the whole text as one Token.Text.
lex(raw, lexer) ==
    LET text == LexerInput(raw) IN
    IF lexer = "TextLexer"
    THEN <<[token_type |-> <<"Text">>, value |-> text]>>
    ELSE [i \in 1..Len(text) |-> [token_type |-> CharTokenType(text[i]), value |-> <<text[i]>>]]

\* TOKEN_STYLES: token type -> <<hex_color, bold, italic>>
StyledTypes ==
    {<<"Comment">>, <<"Comment", "Preproc">>, <<"Keyword">>, <<"Keyword", "Constant">>,
     <<"Keyword", "Type">>, <<"Name", "Builtin">>, <<"Name", "Function">>,
     <<"Name", "Class">>, <<"Name", "Decorator">>, <<"Name", "Exception">>,
     <<"Name", "Tag">>, <<"Name", "Attribute">>, <<"Literal", "String">>,
     <<"Literal", "Number">>, <<"Literal">>, <<"Operator">>, <<"Operator", "Word">>,
     <<"Punctuation">>, <<"Generic", "Heading">>, <<"Generic", "Subheading">>,
     <<"Generic", "Emph">>, <<"Generic", "Strong">>, <<"Generic", "Error">>, <<"Error">>}

TOKEN_STYLES(t) ==
    CASE t = <<"Comment">> -> <<"008000", FALSE, TRUE>>
      [] t = <<"Comment", "Preproc">> -> <<"AF00DB", TRUE, FALSE>>
      [] t \in {<<"Keyword">>, <<"Keyword", "Constant">>, <<"Operator", "Word">>,
                <<"Generic", "Heading">>, <<"Generic", "Subheading">>} -> <<"0000FF", TRUE, FALSE>>
      [] t \in {<<"Keyword", "Type">>, <<"Name", "Exception">>} -> <<"267F99", FALSE, FALSE>>
      [] t \in {<<"Name", "Builtin">>, <<"Name", "Function">>, <<"Name", "Decorator">>}
            -> <<"795E26", FALSE, FALSE>>
      [] t = <<"Name", "Class">> -> <<"267F99", TRUE, FALSE>>
      [] t = <<"Name", "Tag">> -> <<"800000", FALSE, FALSE>>
      [] t \in {<<"Name", "Attribute">>, <<"Generic", "Error">>, <<"Error">>}
            -> <<"FF0000", FALSE, FALSE>>
      [] t \in {<<"Literal", "String">>, <<"Literal">>} -> <<"A31515", FALSE, FALSE>>
      [] t = <<"Literal", "Number">> -> <<"098658", FALSE, FALSE>>
      [] t \in {<<"Operator">>, <<"Punctuation">>} -> <<"000000", FALSE, FALSE>>
      [] t = <<"Generic", "Emph">> -> <<"", FALSE, TRUE>>
      [] t = <<"Generic", "Strong">> -> <<"", TRUE, FALSE>>

\* get_token_style: the nearest styled ancestor's style, <<>> (None) when the
\* walk reaches Token
RECURSIVE get_token_style(_)
get_token_style(token_type) ==
    IF token_type = <<>> THEN <<>>
    ELSE IF token_type \in StyledTypes THEN TOKEN_STYLES(token_type)
    ELSE get_token_style(SubSeq(token_type, 1, Len(token_type) - 1))

----------------------------------------------------------------------------
(* Block renderers                                                         *)

\* para = doc.add_paragraph(...) with the formatting `proto`, then
\* render_inline(para, children, base_dir, bold=bold): the paragraph is in
\* the document before its runs are added, and whatever render_inline appends
\* to the paragraph's parent comes after it.
AddRendered(d, proto, children, base_dir, bold) ==
    LET p == render_inline(NewParagraph("_Body"), children, base_dir, bold, FALSE, FALSE)
    IN [d EXCEPT !.body = (@ \o <<[proto EXCEPT !.runs = @ \o p.runs]>>) \o p.parent.body,
                 !.err = p.parent.err]

render_heading(d, token, base_dir) ==
    LET attrs == Get(token, "attrs", <<>>)
        level == IF attrs # <<>> THEN Get(attrs, "level", 1) ELSE 1
    IN AddRendered(d, [kind |-> "heading", level |-> level, runs |-> <<>>],
                   Get(token, "children", <<>>), base_dir, FALSE)

render_paragraph(d, token, base_dir) ==
    LET children == Get(token, "children", <<>>) IN
    IF Len(children) = 1 /\ children[1].type = "image"
    THEN LET src == Get(Get(children[1], "attrs", <<>>), "src", "")
         IN IF src # "" THEN add_image(d, src, base_dir) ELSE d
    ELSE AddRendered(d, Paragraph("Normal", <<>>), children, base_dir, FALSE)

\* The lexer chosen for an info string: get_lexer_by_name(lang) if lang else
\* TextLexer(), and TextLexer() when get_lexer_by_name raises
ChooseLexer(lang) ==
    IF lang = <<>> THEN "TextLexer"
    ELSE IF lang \in KnownLexers THEN "PythonLexer" ELSE "TextLexer"

\* One run per lexical token with a non-empty value
RECURSIVE CodeRuns(_)
CodeRuns(tokens_list) ==
    IF tokens_list = <<>> THEN <<>>
    ELSE LET tk == Head(tokens_list)
             style == get_token_style(tk.token_type)
             run == IF style = <<>>
                    THEN Run(tk.value, FALSE, FALSE, FALSE, CODE_FONT)
                    ELSE [Run(tk.value, style[2], style[3], FALSE, CODE_FONT)
                             EXCEPT !.color = style[1]]
         IN (IF tk.value = <<>> THEN <<>> ELSE <<run>>) \o CodeRuns(Tail(tokens_list))

render_block_code(d, token) ==
    LET raw0 == Or(Get(token, "raw", <<>>), Get(token, "text", <<>>))
        attrs == Get(token, "attrs", <<>>)
        info == IF attrs # <<>> THEN Get(attrs, "info", <<>>) ELSE <<>>
    IN IF info # <<>> /\ ~HasWord(info) THEN Raise(d, "IndexError")
       ELSE LET lang == IF info # <<>> THEN FirstWord(info) ELSE <<>>
                raw == IF EndsWithNL(raw0) THEN SubSeq(raw0, 1, Len(raw0) - 1) ELSE raw0
                lexer == ChooseLexer(lang)
            IN IF lexer = "ClassNotFound" THEN Raise(d, "ClassNotFound")
               ELSE Append1(d, [Paragraph("Normal", CodeRuns(lex(raw, lexer)))
                                   EXCEPT !.shading = CODE_BG_COLOR])

render_thematic_break(d, token) ==
    Append1(d, [Paragraph("Normal", <<>>) EXCEPT !.border = <<"bottom", "auto">>])

\* ALERT_STYLES: alert type -> <<border_color, background_color, label_text, text_color>>
NOTE == <<"N", "O", "T", "E">>
TIP == <<"T", "I", "P">>
IMPORTANT == <<"I", "M", "P", "O", "R", "T", "A", "N", "T">>
WARNING == <<"W", "A", "R", "N", "I", "N", "G">>
CAUTION == <<"C", "A", "U", "T", "I", "O", "N">>

AlertTypes == {NOTE, TIP, IMPORTANT, WARNING, CAUTION}

ALERT_STYLES(t) ==
    CASE t = NOTE -> <<"4493F8", "DBEAFE", "Note", "4493F8">>
      [] t = TIP -> <<"3FB950", "DCFCE7", "Tip", "3FB950">>
      [] t = IMPORTANT -> <<"AB7DF8", "F3E8FF", "Important", "AB7DF8">>
      [] t = WARNING -> <<"D29922", "FEF9C3", "Warning", "D29922">>
      [] t = CAUTION -> <<"F85149", "FEE2E2", "Caution", "F85149">>

\* The glyph runs of a task-list item
CheckedBox == <<"U+2611", " ">>
UncheckedBox == <<"U+2610", " ">>

QuoteParagraph == [Paragraph("Normal", <<>>) EXCEPT !.indent = TRUE, !.border = <<"left", "999999">>]

\* apply_alert_formatting
AlertParagraph(border_color, bg_color) ==
    [Paragraph("Normal", <<>>) EXCEPT !.indent = TRUE, !.shading = bg_color,
                                     !.border = <<"left", border_color>>]

\* One table cell: the runs and alignment of its first paragraph, and what
\* was appended to the cell after it
EmptyCell == [runs |-> <<>>, align |-> "none", body |-> <<>>]

AlignMap == {"left", "center", "right"}

AlignOfShifted(aligns, col_idx) ==
    IF col_idx + 1 < Len(aligns) /\ aligns[col_idx + 2] \in AlignMap
    THEN aligns[col_idx + 2] ELSE "none"

\* The header cell whose align attribute decides column col_idx (from 0)
AlignOf(aligns, col_idx) ==
    IF col_idx < Len(aligns) /\ aligns[col_idx + 1] \in AlignMap
    THEN aligns[col_idx + 1] ELSE "none"

\* for row_idx, (cells_list, is_header) ... for col_idx, cell_token ...:
\* `work` is the list of the pairs still to do, in order; d's last element
\* is the table.
RECURSIVE FillCells(_, _, _, _)
FillCells(d, work, aligns, base_dir) ==
    IF work = <<>> \/ d.err # NoErr THEN d
    ELSE LET w == Head(work)
             tbl == d.body[Len(d.body)]
         IN IF w.col_idx >= tbl.cols
            THEN Raise(d, "IndexError")
            ELSE LET p == render_inline(NewParagraph("_Cell"),
                                        Get(w.cell_token, "children", <<>>),
                                        base_dir, w.is_header, FALSE, FALSE)
                     cell == [runs |-> p.runs,
                              align |-> IF p.parent.err = NoErr
                                        THEN AlignOf(aligns, w.col_idx) ELSE "none",
                              body |-> p.parent.body]
                     d2 == [d EXCEPT !.body[Len(d.body)].cells[w.row_idx + 1][w.col_idx + 1] = cell,
                                     !.err = p.parent.err]
                 IN FillCells(d2, Tail(work), aligns, base_dir)

\* The (row_idx, col_idx, cell_token, is_header) visits of the nested loop
RECURSIVE CellWork(_, _)
CellWork(all_rows, row_idx) ==
    IF row_idx >= Len(all_rows) THEN <<>>
    ELSE LET r == all_rows[row_idx + 1]
         IN [c \in 1..Len(r.cells) |->
                [row_idx |-> row_idx, col_idx |-> c - 1, cell_token |-> r.cells[c],
                 is_header |-> r.is_header]]
            \o CellWork(all_rows, row_idx + 1)

\* The last child of the given type (the loop keeps the last one it sees)
LastOfType(children, t) ==
    LET idx == {i \in 1..Len(children) : children[i].type = t}
    IN IF idx = {} THEN <<>> ELSE <<children[CHOOSE i \in idx : \A j \in idx : j <= i]>>

render_table(d, token, base_dir) ==
    LET children == Get(token, "children", <<>>)
        head == LastOfType(children, "table_head")
        body == LastOfType(children, "table_body")
        body_rows == IF body = <<>> THEN <<>> ELSE Get(body[1], "children", <<>>)
        all_rows ==
            (IF head # <<>>
             THEN <<[cells |-> Get(head[1], "children", <<>>), is_header |-> TRUE]>>
             ELSE <<>>)
            \o [i \in 1..Len(body_rows) |->
                   [cells |-> Get(body_rows[i], "children", <<>>), is_header |-> FALSE]]
    IN IF children = <<>> \/ all_rows = <<>> THEN d
       ELSE LET num_cols == Len(all_rows[1].cells)
                num_rows == Len(all_rows)
                hcells == IF head # <<>> THEN Get(head[1], "children", <<>>) ELSE <<>>
                aligns == [i \in 1..Len(hcells) |->
                              Get(Get(hcells[i], "attrs", <<>>), "align", "none")]
                tbl == [kind |-> "table", rows |-> num_rows, cols |-> num_cols,
                        style |-> "Table Grid",
                        cells |-> [r \in 1..num_rows |-> [c \in 1..num_cols |-> EmptyCell]]]
            IN FillCells(Append1(d, tbl), CellWork(all_rows, 0), aligns, base_dir)

RECURSIVE render_block(_, _, _)
RECURSIVE render_list(_, _, _)

\* for child in children (render_block_quote)
RECURSIVE render_block_quote_loop(_, _, _)
render_block_quote_loop(d, children, base_dir) ==
    IF children = <<>> \/ d.err # NoErr THEN d
    ELSE LET child == Head(children)
             d2 == IF child.type = "paragraph"
                   THEN AddRendered(d, QuoteParagraph, Get(child, "children", <<>>),
                                    base_dir, FALSE)
                   ELSE render_block(d, child, base_dir)
         IN render_block_quote_loop(d2, Tail(children), base_dir)

render_block_quote(d, token, base_dir) ==
    render_block_quote_loop(d, Get(token, "children", <<>>), base_dir)

\* for child in children (render_alert)
RECURSIVE render_alert_loop(_, _, _, _)
render_alert_loop(d, children, base_dir, proto) ==
    IF children = <<>> \/ d.err # NoErr THEN d
    ELSE LET child == Head(children)
             d2 == IF child.type = "paragraph"
                   THEN AddRendered(d, proto, Get(child, "children", <<>>), base_dir, FALSE)
                   ELSE IF child.type = "blank_line" THEN d
                   ELSE render_block(d, child, base_dir)
         IN render_alert_loop(d2, Tail(children), base_dir, proto)

render_alert(d, token, base_dir) ==
    LET alert_type == Get(Get(token, "attrs", <<>>), "alert_type", NOTE) IN
    IF alert_type \notin AlertTypes THEN Raise(d, "KeyError")
    ELSE LET st == ALERT_STYLES(alert_type)
             proto == AlertParagraph(st[1], st[2])
             label == [proto EXCEPT !.runs =
                          <<[Run(<<st[3]>>, TRUE, FALSE, FALSE, "") EXCEPT !.color = st[4]]>>]
         IN render_alert_loop(Append1(d, label), Get(token, "children", <<>>), base_dir, proto)

\* Whether the child at index j (from 0) of a task item gets the glyph
GlyphHere(is_task, j) == is_task /\ j = 0

\* for j, child in enumerate(item_children)
RECURSIVE render_item_loop(_, _, _, _, _, _, _)
render_item_loop(d, item_children, j, style, is_task, checked, base_dir) ==
    IF j >= Len(item_children) \/ d.err # NoErr THEN d
    ELSE LET child == item_children[j + 1]
             glyph == IF GlyphHere(is_task, j)
                      THEN <<Run(IF checked THEN CheckedBox ELSE UncheckedBox,
                                 FALSE, FALSE, FALSE, "")>>
                      ELSE <<>>
             d2 == IF child.type \in {"paragraph", "block_text"}
                   THEN AddRendered(d, Paragraph(style, glyph),
                                    Get(child, "children", <<>>), base_dir, FALSE)
                   ELSE IF child.type = "list" THEN render_list(d, child, base_dir)
                   ELSE render_block(d, child, base_dir)
         IN render_item_loop(d2, item_children, j + 1, style, is_task, checked, base_dir)

\* for i, item in enumerate(children)
RECURSIVE render_list_loop(_, _, _, _)
render_list_loop(d, items, ordered, base_dir) ==
    IF items = <<>> \/ d.err # NoErr THEN d
    ELSE LET item == Head(items)
             style == IF ordered THEN "List Number" ELSE "List Bullet"
             is_task == Get(item, "type", "") = "task_list_item"
             iattrs == Get(item, "attrs", <<>>)
             checked == IF iattrs # <<>> THEN Get(iattrs, "checked", FALSE) ELSE FALSE
             d2 == render_item_loop(d, Get(item, "children", <<>>), 0, style, is_task,
                                    checked, base_dir)
         IN render_list_loop(d2, Tail(items), ordered, base_dir)

render_list(d, token, base_dir) ==
    render_list_loop(d, Get(token, "children", <<>>),
                     Get(Get(token, "attrs", <<>>), "ordered", FALSE), base_dir)

\* Dispatch by token type; an unknown type has no handler and is skipped
render_block(d, token, base_dir) ==
    LET t == token.type IN
    CASE t = "heading" -> render_heading(d, token, base_dir)
      [] t = "paragraph" -> render_paragraph(d, token, base_dir)
      [] t = "block_code" -> render_block_code(d, token)
      [] t = "block_quote" -> render_block_quote(d, token, base_dir)
      [] t = "alert" -> render_alert(d, token, base_dir)
      [] t = "list" -> render_list(d, token, base_dir)
      [] t = "table" -> render_table(d, token, base_dir)
      [] t = "thematic_break" -> render_thematic_break(d, token)
      [] OTHER -> d

\* render_tokens: each top-level token in order; an exception ends the loop
RECURSIVE render_tokens(_, _, _)
render_tokens(d, toks, base_dir) ==
    IF toks = <<>> \/ d.err # NoErr THEN d
    ELSE render_tokens(render_block(d, Head(toks), base_dir), Tail(toks), base_dir)

----------------------------------------------------------------------------
(* AST normalizers                                                         *)

LowerCase == <<"a", "b", "c", "d", "e", "f", "g", "h", "i", "j", "k", "l", "m",
               "n", "o", "p", "q", "r", "s", "t", "u", "v", "w", "x", "y", "z">>

UpperCase == <<"A", "B", "C", "D", "E", "F", "G", "H", "I", "J", "K", "L", "M",
               "N", "O", "P", "Q", "R", "S", "T", "U", "V", "W", "X", "Y", "Z">>

\* str.upper()
UpperChar(c) ==
    IF \E i \in 1..Len(LowerCase) : LowerCase[i] = c
    THEN UpperCase[CHOOSE i \in 1..Len(LowerCase) : LowerCase[i] = c]
    ELSE c

Upper(s) == [i \in 1..Len(s) |-> UpperChar(s[i])]

\* second_raw[1:-1] of a string that starts with "!" and ends with "]"
MarkerNameExact(second_raw) == SubSeq(second_raw, 2, Len(second_raw) - 1)

MarkerName(second_raw) == Upper(SubSeq(second_raw, 2, Len(second_raw) - 1))

\* detect_alert_type: the alert type, or <<>> for None
detect_alert_type(token) ==
    LET children == Get(token, "children", <<>>) IN
    IF children = <<>> THEN <<>>
    ELSE IF Get(children[1], "type", "") # "paragraph" THEN <<>>
    ELSE LET inlines == Get(children[1], "children", <<>>) IN
         IF Len(inlines) < 2 THEN <<>>
         ELSE IF Get(inlines[1], "type", "") # "text" \/ Get(inlines[2], "type", "") # "text"
              THEN <<>>
         ELSE LET first_raw == Or(Get(inlines[1], "raw", <<>>), Get(inlines[1], "text", <<>>))
                  second_raw == Or(Get(inlines[2], "raw", <<>>), Get(inlines[2], "text", <<>>))
              IN IF first_raw # <<"[">> THEN <<>>
                 ELSE IF /\ second_raw # <<>>
                         /\ Head(second_raw) = "!"
                         /\ second_raw[Len(second_raw)] = "]"
                         /\ MarkerName(second_raw) \in AlertTypes
                      THEN MarkerName(second_raw)
                      ELSE <<>>

NotBlankLineKeepAll(c) == TRUE

NotBlankLine(c) == Get(c, "type", "") # "blank_line"

\* The alert token that replaces a block_quote detected as an alert
AlertFor(token, alert_type) ==
    LET children == Get(token, "children", <<>>)
        body_children ==
            IF children # <<>> /\ Get(children[1], "type", "") = "paragraph"
            THEN LET inlines == Get(children[1], "children", <<>>)
                     stripped0 == SubSeq(inlines, 3, Len(inlines))
                     stripped == IF stripped0 # <<>> /\ Get(stripped0[1], "type", "") = "softbreak"
                                 THEN Tail(stripped0) ELSE stripped0
                     rest == SelectSeq(Tail(children), NotBlankLine)
                 IN IF stripped # <<>>
                    THEN <<[type |-> "paragraph", children |-> stripped]>> \o rest
                    ELSE rest
            ELSE children
    IN [type |-> "alert", attrs |-> [alert_type |-> alert_type], children |-> body_children]

RECURSIVE preprocess_alerts(_)
preprocess_alerts(toks) ==
    IF toks = <<>> THEN <<>>
    ELSE LET token == Head(toks)
             alert_type == IF token.type = "block_quote" THEN detect_alert_type(token) ELSE <<>>
         IN <<IF alert_type # <<>> THEN AlertFor(token, alert_type) ELSE token>>
            \o preprocess_alerts(Tail(toks))

\* attrs["src"] = attrs.pop("url")
RenameUrlKeepingUrl(attrs) ==
    [k \in DOMAIN attrs \cup {"src"} |-> IF k = "src" THEN attrs.url ELSE attrs[k]]

RenameUrl(attrs) ==
    [k \in (DOMAIN attrs \ {"url"}) \cup {"src"} |-> IF k = "src" THEN attrs.url ELSE attrs[k]]

\* The inner loop body of preprocess_images for one child of a top-level token
NormalizeChild(child) ==
    IF Get(child, "type", "") = "image"
       /\ Get(child, "attrs", <<>>) # <<>>
       /\ "url" \in DOMAIN child.attrs
    THEN [child EXCEPT !.attrs = RenameUrl(@)]
    ELSE child

\* preprocess_images: the direct children of every top-level token
preprocess_images(toks) ==
    [i \in 1..Len(toks) |->
        IF Get(toks[i], "children", <<>>) # <<>>
        THEN [toks[i] EXCEPT !.children = [j \in 1..Len(@) |-> NormalizeChild(@[j])]]
        ELSE toks[i]]

\* The scratch image of the diagram block at position i: the file name is
\* derived from id(token), which is modelled by the token's position
DiagramPngs == <<"/tmp/markdown2docx/diagram_1.png", "/tmp/markdown2docx/diagram_2.png",
                 "/tmp/markdown2docx/diagram_3.png", "/tmp/markdown2docx/diagram_4.png">>

MERMAID == <<"m", "e", "r", "m", "a", "i", "d">>

\* Whether a top-level token is a diagram block
IsMermaidByPrefix(token) ==
    /\ token.type = "block_code"
    /\ LET attrs == Get(token, "attrs", <<>>)
           info == IF attrs # <<>> THEN Get(attrs, "info", <<>>) ELSE <<>>
       IN Len(info) >= Len(MERMAID) /\ SubSeq(info, 1, Len(MERMAID)) = MERMAID

IsMermaid(token) ==
    /\ token.type = "block_code"
    /\ LET attrs == Get(token, "attrs", <<>>)
           info == IF attrs # <<>> THEN Get(attrs, "info", <<>>) ELSE <<>>
       IN info # <<>> /\ HasWord(info) /\ FirstWord(info) = MERMAID

\* preprocess_mermaid when every mmdc run succeeds: each diagram block is
\* replaced by a paragraph holding one image that points at its png
preprocess_mermaid(toks, base_dir) ==
    [i \in 1..Len(toks) |->
        IF IsMermaid(toks[i])
        THEN [type |-> "paragraph",
              children |-> <<[type |-> "image",
                              attrs |-> [src |-> DiagramPngs[i], alt |-> "mermaid diagram"]]>>]
        ELSE toks[i]]

\* The png files the mmdc runs of preprocess_mermaid leave behind
MermaidOutputs(toks) == {<<DiagramPngs[i]>> : i \in {j \in 1..Len(toks) : IsMermaid(toks[j])}}

----------------------------------------------------------------------------
(* SpecInline: render_inline applied to inline trees                       *)

\* Bound: the number of nodes of the inline trees handed to render_inline
MaxNodes == 4

BASE_DIR == "docs"

TextNode(s) == [type |-> "text", raw |-> s]

Wrapper(t, children) == [type |-> t, children |-> children]

WrapperTypes == {"strong", "emphasis", "strikethrough"}

\* The inline trees with exactly n nodes, and the sequences of trees with n
\* nodes in all (a children list)
RECURSIVE InlineTrees(_)
RECURSIVE InlineForests(_)
InlineTrees(n) ==
    IF n = 0 THEN {}
    ELSE (IF n = 1 THEN {TextNode(<<"a">>)} ELSE {})
         \cup {Wrapper(t, f) : t \in WrapperTypes, f \in InlineForests(n - 1)}

InlineForests(n) ==
    IF n = 0 THEN {<<>>}
    ELSE UNION {{<<t>> \o f : t \in InlineTrees(i), f \in InlineForests(n - i)} : i \in 1..n}

InlineInputs == UNION {InlineForests(n) : n \in 0..MaxNodes}

InitInline ==
    /\ pc = "call"
    /\ call \in [fn : {"render_inline"}, children : InlineInputs,
                 bold : BOOLEAN, italic : BOOLEAN, strike : BOOLEAN]
    /\ result = NewParagraph("_Body")
    /\ files = <<>> /\ fidx = 0 /\ tokens = <<>> /\ parsed = <<>>
    /\ doc = Container("Document") /\ steps = <<>>
    /\ written = {} /\ echoed = <<>> /\ fs = {} /\ mmdc = "ok"

CallRenderInline ==
    /\ pc = "call"
    /\ call.fn = "render_inline"
    /\ result' = render_inline(NewParagraph("_Body"), call.children, BASE_DIR,
                               call.bold, call.italic, call.strike)
    /\ pc' = "return"
    /\ UNCHANGED <<call, files, fidx, tokens, parsed, doc, steps, written, echoed, fs, mmdc>>

SpecInline == InitInline /\ [][CallRenderInline]_vars

\* The wrapper kinds above each text node, in document order
RECURSIVE TextAncestors(_, _)
TextAncestors(children, anc) ==
    IF children = <<>> THEN <<>>
    ELSE LET c == Head(children)
             here == IF c.type = "text" THEN <<anc>>
                     ELSE TextAncestors(c.children, anc \cup {c.type})
         IN here \o TextAncestors(Tail(children), anc)

\* C2: render_inline emits one run per text node, and the run is bold iff a
\* strong ancestor exists or the bold argument is true, italic iff an emphasis
\* ancestor exists or italic is true, struck iff a strikethrough ancestor
\* exists or strike is true: the flags depend only on the set of ancestor
\* kinds, never on their order or depth.
C2_FlagsAreUnionOfAncestors ==
    (pc = "return" /\ call.fn = "render_inline") =>
        LET anc == TextAncestors(call.children, {})
            runs == result.runs
        IN /\ Len(runs) = Len(anc)
           /\ \A i \in 1..Len(runs) :
                /\ runs[i].bold = (("strong" \in anc[i]) \/ call.bold)
                /\ runs[i].italic = (("emphasis" \in anc[i]) \/ call.italic)
                /\ runs[i].strike = (("strikethrough" \in anc[i]) \/ call.strike)

\* C2 witness: a text node under all three wrappers was rendered by a call
\* whose own flags are all false, and came out bold, italic and struck.
C2_Witness ==
    /\ pc = "return" /\ call.fn = "render_inline"
    /\ ~call.bold /\ ~call.italic /\ ~call.strike
    /\ \E i \in 1..Len(result.runs) :
          /\ TextAncestors(call.children, {})[i] = WrapperTypes
          /\ result.runs[i].bold /\ result.runs[i].italic /\ result.runs[i].strike

----------------------------------------------------------------------------
(* SpecBlock: render_block applied to one block token on a new Document    *)

\* Bounds of the block tokens handed to render_block
MaxCodeLen == 3
MaxCols == 2
MaxRows == 2
MaxItemChildren == 2

\* All sequences over S of length at most n
SeqsUpTo(S, n) == UNION {[1..k -> S] : k \in 0..n}

\* Code blocks as the parser emits them: attrs only with a non-empty info
\* string, which is stripped of surrounding whitespace
CodeChars == {"k", "c", "x", NL}

InfoStrings == {<<>>, <<"p", "y">>, <<"z", "z">>, <<"p", "y", " ", "x">>, <<"z", "z", " ", "x">>}

CodeToken(raw, info) ==
    IF info = <<>> THEN [type |-> "block_code", raw |-> raw]
    ELSE [type |-> "block_code", raw |-> raw, attrs |-> [info |-> info]]

CodeTokens == {CodeToken(raw, info) : raw \in SeqsUpTo(CodeChars, MaxCodeLen), info \in InfoStrings}

\* Tables as the parser emits them: a table_head of N cells, each with its
\* align attribute ("none" is Python's None), and a table_body of M rows of
\* N cells
TableCell(align, children) ==
    [type |-> "table_cell", attrs |-> [align |-> align], children |-> children]

HeadCells == {TableCell(a, <<TextNode(<<"h">>)>>) : a \in AlignMap \cup {"none"}}

\* The text of the body cell at row r, column c: one letter for the row and
\* one for the column, so that every cell of a table differs from the others
RowNames == <<"p", "q", "r", "s">>
ColNames == <<"w", "x", "y", "z">>

\* A body cell carries the alignment of its column, as the parser sets it
BodyCell(r, c, align, wrapped) ==
    LET text == TextNode(<<RowNames[r], ColNames[c]>>)
    IN TableCell(align, IF wrapped THEN <<Wrapper("emphasis", <<text>>)>> ELSE <<text>>)

TableRow(cells) == [type |-> "table_row", children |-> cells]

BodyRows(head, m, wrapped) ==
    [r \in 1..m |-> TableRow([c \in 1..Len(head) |->
                                 BodyCell(r, c, head[c].attrs.align, wrapped)])]

Table(head, rows) ==
    [type |-> "table",
     children |-> <<[type |-> "table_head", children |-> head],
                    [type |-> "table_body", children |-> rows]>>]

UniformTables ==
    UNION {{Table(h, BodyRows(h, m, w)) : h \in [1..n -> HeadCells], m \in 0..MaxRows, w \in BOOLEAN}
           : n \in 1..MaxCols}

\* Tables that break the parser's shape: children, head or body absent, cells
\* without attrs or children, rows of differing lengths
BareCell == [type |-> "table_cell"]

BareRows == {TableRow([i \in 1..k |-> BareCell]) : k \in 0..(MaxCols + 1)}

MalformedTables ==
    {[type |-> "table"], [type |-> "table", children |-> <<>>],
     [type |-> "table", children |-> <<[type |-> "table_head"]>>],
     [type |-> "table", children |-> <<[type |-> "table_body"]>>]}
    \cup {Table([i \in 1..n |-> BareCell], rows) : n \in 0..MaxCols, rows \in SeqsUpTo(BareRows, MaxRows)}
    \cup {[type |-> "table", children |-> <<[type |-> "table_body", children |-> rows]>>]
             : rows \in SeqsUpTo(BareRows, MaxRows)}

Para(children) == [type |-> "paragraph", children |-> children]

\* Alert tokens: as preprocess_alerts builds them, and with the severity
\* missing or unknown
DANGER == <<"D", "A", "N", "G", "E", "R">>

AlertBodies == {<<>>, <<Para(<<TextNode(<<"a">>)>>)>>,
                <<Para(<<TextNode(<<"a">>)>>), [type |-> "blank_line"],
                  CodeToken(<<"x", NL>>, <<>>)>>}

WellFormedAlerts ==
    {[type |-> "alert", attrs |-> [alert_type |-> t], children |-> b]
        : t \in AlertTypes, b \in AlertBodies}

MalformedAlerts ==
    {[type |-> "alert"], [type |-> "alert", attrs |-> <<>>],
     [type |-> "alert", children |-> <<Para(<<TextNode(<<"a">>)>>)>>],
     [type |-> "alert", attrs |-> [alert_type |-> DANGER], children |-> <<>>],
     [type |-> "alert", attrs |-> [alert_type |-> <<>>], children |-> <<>>]}

\* Lists.  An item's children are drawn from ItemChildren; a task item is an
\* item whose first child carried the "[ ]" / "[x]" marker text, which the
\* parser looks for in a paragraph, a block_text or a heading.
NestedList ==
    [type |-> "list", attrs |-> [ordered |-> FALSE],
     children |-> <<[type |-> "task_list_item", attrs |-> [checked |-> TRUE],
                     children |-> <<[type |-> "block_text",
                                     children |-> <<TextNode(<<"n">>)>>]>>]>>]

ItemChildren ==
    {Para(<<TextNode(<<"a">>)>>),
     [type |-> "block_text", children |-> <<TextNode(<<"b">>)>>],
     [type |-> "heading", attrs |-> [level |-> 2], children |-> <<TextNode(<<"t">>)>>],
     [type |-> "blank_line"],
     CodeToken(<<"x", NL>>, <<>>),
     NestedList}

MarkerCarriers == {"paragraph", "block_text", "heading"}

ListItems ==
    {[type |-> "list_item", children |-> cs] : cs \in SeqsUpTo(ItemChildren, MaxItemChildren)}
    \cup {[type |-> "task_list_item", attrs |-> [checked |-> ck], children |-> cs]
             : ck \in BOOLEAN,
               cs \in {x \in SeqsUpTo(ItemChildren, MaxItemChildren) :
                          x # <<>> /\ x[1].type \in MarkerCarriers}}

SecondItems ==
    {<<>>,
     <<[type |-> "task_list_item", attrs |-> [checked |-> FALSE],
        children |-> <<[type |-> "block_text", children |-> <<TextNode(<<"b">>)>>]>>]>>,
     <<[type |-> "list_item",
        children |-> <<[type |-> "block_text", children |-> <<TextNode(<<"b">>)>>]>>]>>}

Lists ==
    {[type |-> "list", attrs |-> [ordered |-> o], children |-> <<it>> \o more]
        : o \in BOOLEAN, it \in ListItems, more \in SecondItems}

\* Paragraphs, headings and the other block tokens, with and without their
\* optional fields
ImageUrls == {"pic.png", "/abs/pic.png"}

ImageNode(key, url) ==
    IF key = "src" THEN [type |-> "image", attrs |-> [src |-> url]]
    ELSE [type |-> "image", attrs |-> [url |-> url]]

OtherBlocks ==
    {Para(<<ImageNode("src", u)>>) : u \in ImageUrls}
    \cup {Para(<<TextNode(<<"a">>), ImageNode("src", u)>>) : u \in ImageUrls}
    \cup {Para(<<TextNode(<<"a">>)>>), Para(<<>>), [type |-> "thematic_break"],
          [type |-> "block_quote", children |-> <<Para(<<TextNode(<<"a">>)>>)>>],
          [type |-> "heading", attrs |-> [level |-> 2], children |-> <<TextNode(<<"t">>)>>]}

\* Nodes with absent or empty optional fields
BareBlocks ==
    {[type |-> "paragraph"], [type |-> "heading"], [type |-> "heading", attrs |-> <<>>],
     [type |-> "block_code"], [type |-> "block_code", attrs |-> <<>>],
     [type |-> "block_quote"], [type |-> "list"], [type |-> "list", attrs |-> <<>>],
     [type |-> "list", children |-> <<[type |-> "list_item"]>>],
     [type |-> "list", children |-> <<[type |-> "task_list_item"]>>],
     [type |-> "thematic_break"], [type |-> "html_block"],
     Para(<<[type |-> "image"]>>), Para(<<[type |-> "image", attrs |-> <<>>]>>),
     Para(<<TextNode(<<"a">>), [type |-> "image"]>>),
     Para(<<[type |-> "text"], [type |-> "link"], [type |-> "codespan"],
            [type |-> "strong"]>>)}

MalformedBlocks == MalformedTables \cup MalformedAlerts \cup BareBlocks

BlockInputs ==
    CodeTokens \cup UniformTables \cup WellFormedAlerts \cup Lists \cup OtherBlocks
    \cup MalformedBlocks

FileSystems == {{}, {<<BASE_DIR, "pic.png">>, <<"/abs/pic.png">>}}

InitBlock ==
    /\ pc = "call"
    /\ call \in [fn : {"render_block"}, token : BlockInputs]
    /\ fs \in FileSystems
    /\ result = Container("Document")
    /\ files = <<>> /\ fidx = 0 /\ tokens = <<>> /\ parsed = <<>>
    /\ doc = Container("Document") /\ steps = <<>>
    /\ written = {} /\ echoed = <<>> /\ mmdc = "ok"

CallRenderBlock ==
    /\ pc = "call"
    /\ call.fn = "render_block"
    /\ result' = render_block(Container("Document"), call.token, BASE_DIR)
    /\ pc' = "return"
    /\ UNCHANGED <<call, files, fidx, tokens, parsed, doc, steps, written, echoed, fs, mmdc>>

SpecBlock == InitBlock /\ [][CallRenderBlock]_vars

Returned == pc = "return" /\ call.fn = "render_block"

\* The concatenation of the texts of a sequence of runs
RECURSIVE ConcatText(_)
ConcatText(runs) == IF runs = <<>> THEN <<>> ELSE Head(runs).text \o ConcatText(Tail(runs))

\* A table token of the parser's shape: a table_head of n >= 1 cells followed
\* by a table_body whose rows have n cells each
IsUniformTable(t) ==
    /\ t.type = "table"
    /\ "children" \in DOMAIN t /\ Len(t.children) = 2
    /\ t.children[1].type = "table_head" /\ t.children[2].type = "table_body"
    /\ "children" \in DOMAIN t.children[1] /\ "children" \in DOMAIN t.children[2]
    /\ Len(t.children[1].children) >= 1
    /\ \A r \in 1..Len(t.children[2].children) :
          Len(Get(t.children[2].children[r], "children", <<>>)) = Len(t.children[1].children)

\* The align attribute a header cell declares ("none": none declared)
DeclaredAlign(cell_token) == Get(Get(cell_token, "attrs", <<>>), "align", "none")

\* C3: for a table token with a table_head of N cells and a table_body of M
\* rows (of N cells each, as the parser emits them), render_table adds exactly
\* one table with N columns and M+1 rows; row 0 holds the header cells, every
\* run bold; rows 1..M hold the body rows in order, no run bold; and every
\* cell of column c has the alignment header cell c declares (none when it
\* declares none).
C3_TableShape ==
    (Returned /\ IsUniformTable(call.token)) =>
        LET head == call.token.children[1].children
            rows == call.token.children[2].children
            N == Len(head)
            M == Len(rows)
        IN /\ result.err = NoErr
           /\ Len(result.body) = 1
           /\ result.body[1].kind = "table"
           /\ result.body[1].cols = N
           /\ result.body[1].rows = M + 1
           /\ \A c \in 1..N :
                LET cell == result.body[1].cells[1][c]
                IN /\ ConcatText(cell.runs) = extract_text(Get(head[c], "children", <<>>))
                   /\ \A i \in 1..Len(cell.runs) : cell.runs[i].bold
                   /\ cell.align = DeclaredAlign(head[c])
           /\ \A r \in 1..M : \A c \in 1..N :
                LET cell == result.body[1].cells[r + 1][c]
                IN /\ ConcatText(cell.runs)
                        = extract_text(Get(rows[r].children[c], "children", <<>>))
                   /\ \A i \in 1..Len(cell.runs) : ~cell.runs[i].bold
                   /\ cell.align = DeclaredAlign(head[c])

\* C3 witness: a 2-column table with two body rows was rendered, the second
\* column declared centred and the first with no alignment, and the last body
\* cell came out centred.
C3_Witness ==
    /\ Returned /\ IsUniformTable(call.token)
    /\ Len(call.token.children[1].children) = 2
    /\ Len(call.token.children[2].children) = 2
    /\ DeclaredAlign(call.token.children[1].children[1]) = "none"
    /\ DeclaredAlign(call.token.children[1].children[2]) = "center"
    /\ result.body[1].rows = 3
    /\ result.body[1].cells[1][2].runs # <<>>
    /\ result.body[1].cells[3][2].runs # <<>>
    /\ result.body[1].cells[3][2].align = "center"
    /\ result.body[1].cells[3][1].align = "none"

\* The glyph a list paragraph starts with
GlyphOf(el) ==
    IF el.runs # <<>> /\ el.runs[1].kind = "run" /\ el.runs[1].text = CheckedBox THEN "checked"
    ELSE IF el.runs # <<>> /\ el.runs[1].kind = "run" /\ el.runs[1].text = UncheckedBox
         THEN "unchecked"
    ELSE "none"

\* The glyphs of the list paragraphs of a document body, in order
RECURSIVE ActualGlyphs(_)
ActualGlyphs(body) ==
    IF body = <<>> THEN <<>>
    ELSE (IF Head(body).kind = "paragraph" /\ Head(body).style \in {"List Bullet", "List Number"}
          THEN <<GlyphOf(Head(body))>> ELSE <<>>)
         \o ActualGlyphs(Tail(body))

TextBearing(child) == child.type \in {"paragraph", "block_text"}

\* The glyphs the claim asks for: per item, the first text-bearing child of a
\* task item carries the glyph of its checked attribute, every other list
\* paragraph carries none
RECURSIVE ExpectedGlyphs(_)
RECURSIVE ExpectedItemGlyphs(_, _, _)
ExpectedItemGlyphs(item, j, seen) ==
    LET cs == Get(item, "children", <<>>) IN
    IF j > Len(cs) THEN <<>>
    ELSE LET child == cs[j]
             here == IF TextBearing(child)
                     THEN IF item.type = "task_list_item" /\ ~seen
                          THEN <<IF Get(Get(item, "attrs", <<>>), "checked", FALSE)
                                 THEN "checked" ELSE "unchecked">>
                          ELSE <<"none">>
                     ELSE IF child.type = "list" THEN ExpectedGlyphs(child)
                     ELSE <<>>
         IN here \o ExpectedItemGlyphs(item, j + 1, seen \/ TextBearing(child))

ExpectedGlyphs(list) ==
    LET items == Get(list, "children", <<>>)
        F[i \in 0..Len(items)] ==
            IF i = 0 THEN <<>> ELSE F[i - 1] \o ExpectedItemGlyphs(items[i], 1, FALSE)
    IN F[Len(items)]

\* C5 (as claimed): for every task-list item rendered by render_list, the
\* list paragraph of its first text-bearing child (paragraph or block_text)
\* starts with the checkbox glyph of its checked attribute, and no other list
\* paragraph of the item, nor any paragraph of a non-task item, carries one.
C5_GlyphOnFirstTextChild ==
    (Returned /\ call.token.type = "list") =>
        ActualGlyphs(result.body) = ExpectedGlyphs(call.token)

\* C7 (as claimed): render_block never raises for a node whose optional
\* fields are absent or empty or that breaks a structural assumption (a table
\* without rows or with rows of differing lengths, an alert with an unknown
\* or missing severity, an image without attrs).
C7_MalformedNeverRaises ==
    (Returned /\ call.token \in MalformedBlocks) => result.err = NoErr

\* The first whitespace-delimited word of a stripped info string
InfoWord(info) ==
    LET sp == {i \in 1..Len(info) : info[i] = " "}
    IN IF sp = {} THEN info ELSE SubSeq(info, 1, (CHOOSE i \in sp : \A j \in sp : i <= j) - 1)

\* C9 (as claimed): every code block is emitted, without error, as one shaded
\* paragraph of monospace runs whose concatenated text is the block's code
\* (compared up to trailing newlines: the code strips one "for cleaner
\* rendering"); with an unknown first word of the info string, or an empty
\* info string, the plain-text lexer is used and no run is styled.
C9_CodeBlockText ==
    (Returned /\ call.token.type = "block_code" /\ call.token \in CodeTokens) =>
        LET raw == call.token.raw
            info == Get(Get(call.token, "attrs", <<>>), "info", <<>>)
        IN /\ result.err = NoErr
           /\ Len(result.body) = 1
           /\ result.body[1].kind = "paragraph"
           /\ result.body[1].shading = CODE_BG_COLOR
           /\ \A i \in 1..Len(result.body[1].runs) : result.body[1].runs[i].font = CODE_FONT
           /\ InfoWord(info) \notin KnownLexers =>
                \A i \in 1..Len(result.body[1].runs) :
                    /\ result.body[1].runs[i].color = ""
                    /\ ~result.body[1].runs[i].bold /\ ~result.body[1].runs[i].italic
           /\ StripTrailingNL(ConcatText(result.body[1].runs)) = StripTrailingNL(raw)

----------------------------------------------------------------------------
(* SpecAlerts: preprocess_alerts on a token list, then render_tokens       *)

\* The first two inline nodes a quoted paragraph may begin with
FirstInlines ==
    {TextNode(<<"[">>), [type |-> "text", text |-> <<"[">>], TextNode(<<"x">>),
     [type |-> "codespan", raw |-> <<"[">>], Wrapper("strong", <<TextNode(<<"[">>)>>)}

SecondInlines ==
    {TextNode(<<"!", "N", "O", "T", "E", "]">>),
     TextNode(<<"!", "n", "o", "t", "e", "]">>),
     TextNode(<<"!", "T", "i", "p", "]">>),
     [type |-> "text", text |-> <<"!", "T", "I", "P", "]">>],
     TextNode(<<"!", "I", "M", "P", "O", "R", "T", "A", "N", "T", "]">>),
     TextNode(<<"!", "W", "A", "R", "N", "I", "N", "G", "]">>),
     TextNode(<<"!", "w", "a", "r", "n", "i", "n", "g", "]">>),
     TextNode(<<"!", "c", "a", "u", "t", "i", "o", "n", "]">>),
     TextNode(<<"!", "D", "A", "N", "G", "E", "R", "]">>),
     TextNode(<<"!", "N", "O", "T", "E">>),
     TextNode(<<"N", "O", "T", "E", "]">>),
     TextNode(<<"!", "]">>),
     TextNode(<<"!", " ", "N", "O", "T", "E", "]">>),
     TextNode(<<"x">>),
     [type |-> "codespan", raw |-> <<"!", "N", "O", "T", "E", "]">>]}

MoreInlines ==
    {<<>>, <<[type |-> "softbreak"]>>, <<[type |-> "softbreak"], TextNode(<<"b">>)>>,
     <<TextNode(<<"b">>)>>, <<[type |-> "softbreak"], [type |-> "softbreak"]>>,
     <<[type |-> "linebreak"], TextNode(<<"b">>)>>}

QuoteTails ==
    {<<>>, <<[type |-> "blank_line"], Para(<<TextNode(<<"c">>)>>)>>,
     <<CodeToken(<<"x", NL>>, <<>>)>>,
     <<Para(<<TextNode(<<"c">>)>>), [type |-> "blank_line"], CodeToken(<<"x", NL>>, <<>>),
       [type |-> "blank_line"]>>}

BlockQuote(children) == [type |-> "block_quote", children |-> children]

BlockQuotes ==
    {BlockQuote(<<Para(<<a, b>> \o m)>> \o t)
        : a \in FirstInlines, b \in SecondInlines, m \in MoreInlines, t \in QuoteTails}
    \cup {BlockQuote(<<Para(<<a>>)>>) : a \in FirstInlines}
    \cup {[type |-> "block_quote"], BlockQuote(<<>>), BlockQuote(<<Para(<<>>)>>),
          BlockQuote(<<CodeToken(<<"x", NL>>, <<>>), Para(<<TextNode(<<"[">>), TextNode(<<"!", "N", "O", "T", "E", "]">>)>>)>>)}

\* Tokens that are no top-level block_quote, one of them a list item holding
\* a marked block_quote
NonQuotes ==
    {Para(<<TextNode(<<"[">>), TextNode(<<"!", "N", "O", "T", "E", "]">>)>>),
     CodeToken(<<"x", NL>>, <<>>),
     [type |-> "list", attrs |-> [ordered |-> FALSE],
      children |-> <<[type |-> "list_item",
                      children |-> <<BlockQuote(<<Para(<<TextNode(<<"[">>),
                                        TextNode(<<"!", "T", "I", "P", "]">>)>>)>>)>>]>>]}

AlertInputs ==
    {<<q>> : q \in BlockQuotes \cup NonQuotes}
    \cup {<<n, q>> : n \in NonQuotes, q \in BlockQuotes}
    \cup {<<q, n>> : n \in NonQuotes, q \in BlockQuotes}

InitAlerts ==
    /\ pc = "call"
    /\ call \in [fn : {"preprocess_alerts"}, tokens : AlertInputs]
    /\ result = <<>>
    /\ fs = {}
    /\ files = <<>> /\ fidx = 0 /\ tokens = <<>> /\ parsed = <<>>
    /\ doc = Container("Document") /\ steps = <<>>
    /\ written = {} /\ echoed = <<>> /\ mmdc = "ok"

CallPreprocessAlerts ==
    /\ pc = "call"
    /\ call.fn = "preprocess_alerts"
    /\ result' = preprocess_alerts(call.tokens)
    /\ pc' = "return"
    /\ UNCHANGED <<call, files, fidx, tokens, parsed, doc, steps, written, echoed, fs, mmdc>>

RenderAlertResult ==
    /\ pc = "return"
    /\ call.fn = "preprocess_alerts"
    /\ doc' = render_tokens(Container("Document"), result, BASE_DIR)
    /\ pc' = "rendered"
    /\ UNCHANGED <<call, result, files, fidx, tokens, parsed, steps, written, echoed, fs, mmdc>>

SpecAlerts == InitAlerts /\ [][CallPreprocessAlerts \/ RenderAlertResult]_vars

\* s equals the upper-case word S up to the case of its letters
SameIgnoringCase(s, S) ==
    /\ Len(s) = Len(S)
    /\ \A k \in 1..Len(S) :
          \/ s[k] = S[k]
          \/ \E i \in 1..Len(UpperCase) : UpperCase[i] = S[k] /\ LowerCase[i] = s[k]

\* The literal content of a text node
Content(n) == Or(Get(n, "raw", <<>>), Get(n, "text", <<>>))

\* The severities S for which the token is a block_quote whose first child is
\* a paragraph beginning with the text nodes "[" and "!S]" (any case)
MarkedSeverities(token) ==
    {S \in AlertTypes :
        /\ token.type = "block_quote"
        /\ Get(token, "children", <<>>) # <<>>
        /\ token.children[1].type = "paragraph"
        /\ Len(Get(token.children[1], "children", <<>>)) >= 2
        /\ LET a == token.children[1].children[1]
               b == token.children[1].children[2]
           IN /\ a.type = "text" /\ b.type = "text"
              /\ Content(a) = <<"[">>
              /\ Len(Content(b)) = Len(S) + 2
              /\ Content(b)[1] = "!" /\ Content(b)[Len(S) + 2] = "]"
              /\ SameIgnoringCase(SubSeq(Content(b), 2, Len(S) + 1), S)}

ParagraphsOf(children) == SelectSeq(children, LAMBDA c : c.type = "paragraph")

GrayLeftRule(el) == el.kind = "paragraph" /\ el.border = <<"left", "999999">>

AlertBackgrounds == {ALERT_STYLES(t)[2] : t \in AlertTypes}

\* C4: preprocess_alerts returns a list of the same length in which token i
\* is an alert of severity S exactly when input token i is a block_quote whose
\* first child is a paragraph beginning with the text nodes "[" and "!S]", S
\* one of the five severities in any case; the alert carries the upper-case
\* S and its body holds the first paragraph's inlines only from the third
\* on (the two marker nodes are gone); every other token is returned
\* unchanged, and an unmarked block_quote is then rendered as a plain
\* blockquote: a gray left rule on each of its paragraphs, no alert shading
\* and no label paragraph.
C4_AlertDetection ==
    (pc \in {"return", "rendered"} /\ call.fn = "preprocess_alerts") =>
        /\ Len(result) = Len(call.tokens)
        /\ \A i \in 1..Len(call.tokens) :
              LET tok == call.tokens[i]
                  sev == MarkedSeverities(tok)
              IN IF sev = {}
                 THEN result[i] = tok
                 ELSE /\ result[i].type = "alert"
                      /\ result[i].attrs.alert_type \in sev
                      /\ LET inl == tok.children[1].children
                             body == result[i].children
                         IN \/ body = <<>>
                            \/ body[1] \in {tok.children[j] : j \in 2..Len(tok.children)}
                            \/ \E k \in 3..Len(inl) :
                                  body[1] = Para(SubSeq(inl, k, Len(inl)))
        /\ (pc = "rendered" /\ Len(call.tokens) = 1 /\ call.tokens[1].type = "block_quote") =>
              LET tok == call.tokens[1]
                  sev == MarkedSeverities(tok)
              IN IF sev = {}
                 THEN /\ doc.err = NoErr
                      /\ \A i \in 1..Len(doc.body) :
                            doc.body[i].kind = "paragraph" =>
                                doc.body[i].shading \notin AlertBackgrounds
                      /\ Len(SelectSeq(doc.body, GrayLeftRule))
                            = Len(ParagraphsOf(Get(tok, "children", <<>>)))
                 ELSE /\ doc.err = NoErr
                      /\ \E S \in sev :
                            /\ doc.body[1].runs[1].text = <<ALERT_STYLES(S)[3]>>
                            /\ doc.body[1].shading = ALERT_STYLES(S)[2]
                      /\ SelectSeq(doc.body, GrayLeftRule) = <<>>

\* C4 witness: a quote beginning "[" "!warning]" in lower case was turned into
\* a WARNING alert and rendered with the Warning label, and (in another run) a
\* quote beginning with ordinary text was rendered with the gray rule.
C4_Witness ==
    /\ pc = "rendered" /\ call.fn = "preprocess_alerts"
    /\ Len(call.tokens) = 1 /\ call.tokens[1].type = "block_quote"
    /\ Get(call.tokens[1], "children", <<>>) # <<>>
    /\ call.tokens[1].children[1].type = "paragraph"
    /\ Len(call.tokens[1].children[1].children) > 3
    /\ Content(call.tokens[1].children[1].children[2])
          = <<"!", "w", "a", "r", "n", "i", "n", "g", "]">>
    /\ result[1].type = "alert"
    /\ result[1].attrs.alert_type = WARNING
    /\ doc.body[1].runs[1].text = <<"Warning">>
    /\ Len(doc.body) > 1

\* C4 second witness: the pass-through case was rendered
C4_WitnessPlain ==
    /\ pc = "rendered" /\ call.fn = "preprocess_alerts"
    /\ Len(call.tokens) = 1 /\ call.tokens[1].type = "block_quote"
    /\ MarkedSeverities(call.tokens[1]) = {}
    /\ result = call.tokens
    /\ Len(doc.body) > 0 /\ GrayLeftRule(doc.body[1])

\* The positions of a blockquote's children, after the first, that hold no
\* blank_line
KeptPositions(children) ==
    {j \in 2..Len(children) : children[j].type # "blank_line"}

\* The k-th smallest element of a finite set of numbers
RECURSIVE Nth(_, _)
Nth(S, k) ==
    LET least == CHOOSE x \in S : \A y \in S : x <= y
    IN IF k = 1 THEN least ELSE Nth(S \ {least}, k - 1)

\* The inlines of a marked first paragraph that stay: from the third on, and
\* from the fourth on when the third is a softbreak
KeptInlines(inl) ==
    IF Len(inl) >= 3 /\ inl[3].type = "softbreak"
    THEN SubSeq(inl, 4, Len(inl))
    ELSE SubSeq(inl, 3, Len(inl))

\* C11: for a block_quote turned into an alert, the alert's children are: a
\* paragraph holding the first paragraph's inlines after the two marker nodes
\* and after one softbreak directly behind them, present only when an inline
\* remains; then the children of the blockquote after the first that are no
\* blank_line, each exactly once and in their order.  Nothing else is in the
\* body.
C11_AlertBody ==
    (pc \in {"return", "rendered"} /\ call.fn = "preprocess_alerts") =>
        \A i \in 1..Len(call.tokens) :
            (call.tokens[i].type = "block_quote" /\ result[i].type = "alert") =>
                LET children == call.tokens[i].children
                    body == result[i].children
                    kept == KeptInlines(children[1].children)
                    lead == IF kept # <<>> THEN 1 ELSE 0
                    pos == KeptPositions(children)
                IN /\ Len(body) = lead + Cardinality(pos)
                   /\ lead = 1 => body[1] = [type |-> "paragraph", children |-> kept]
                   /\ \A k \in 1..Cardinality(pos) : body[lead + k] = children[Nth(pos, k)]

\* An alert whose first paragraph held the marker and a softbreak only: the
\* paragraph is gone and the body is the two later children that are no
\* blank_line, out of four
C11_Witness ==
    /\ pc = "return" /\ call.fn = "preprocess_alerts"
    /\ Len(call.tokens) = 1 /\ call.tokens[1].type = "block_quote"
    /\ result[1].type = "alert"
    /\ Len(call.tokens[1].children) = 5
    /\ Len(call.tokens[1].children[1].children) = 3
    /\ call.tokens[1].children[1].children[3].type = "softbreak"
    /\ call.tokens[1].children[3].type = "blank_line"
    /\ Len(result[1].children) = 2
    /\ result[1].children[1] = call.tokens[1].children[2]
    /\ result[1].children[2] = call.tokens[1].children[4]

\* An alert whose first paragraph keeps what follows the marker and one
\* softbreak: a second softbreak stays
C11_WitnessKept ==
    /\ pc = "return" /\ call.fn = "preprocess_alerts"
    /\ Len(call.tokens) = 1 /\ result[1].type = "alert"
    /\ Len(call.tokens[1].children[1].children) = 4
    /\ result[1].children[1] = [type |-> "paragraph", children |-> <<[type |-> "softbreak"]>>]

----------------------------------------------------------------------------
(* SpecImages: preprocess_images applied once, then again to its result    *)

\* Bound: the number of children of the paragraph handed to preprocess_images
MaxChildren == 2

\* Image nodes as the parser and preprocess_mermaid emit them, and with the
\* attrs empty or absent
ImageNodes ==
    {[type |-> "image", attrs |-> [url |-> "pic.png"]],
     [type |-> "image", attrs |-> [url |-> "pic.png", title |-> "t"]],
     [type |-> "image", attrs |-> [src |-> "/tmp/markdown2docx/diagram_1.png",
                                   alt |-> "mermaid diagram"]],
     [type |-> "image", attrs |-> [url |-> "pic.png", src |-> "/abs/pic.png"]],
     [type |-> "image", attrs |-> <<>>],
     [type |-> "image"]}

ImageSiblings ==
    ImageNodes \cup
    {TextNode(<<"a">>),
     Wrapper("strong", <<[type |-> "image", attrs |-> [url |-> "pic.png"]]>>),
     [type |-> "link", attrs |-> [url |-> "http://x"], children |-> <<TextNode(<<"a">>)>>]}

ImageInputs ==
    {<<Para(cs)>> \o more
        : cs \in SeqsUpTo(ImageSiblings, MaxChildren),
          more \in {<<>>, <<[type |-> "thematic_break"]>>,
                    <<[type |-> "heading", attrs |-> [level |-> 1],
                       children |-> <<[type |-> "image", attrs |-> [url |-> "pic.png"]]>>]>>,
                    <<BlockQuote(<<Para(<<[type |-> "image", attrs |-> [url |-> "pic.png"]]>>)>>)>>}}

InitImages ==
    /\ pc = "call"
    /\ call \in [fn : {"preprocess_images"}, tokens : ImageInputs]
    /\ result = <<>>
    /\ tokens = <<>>
    /\ fs = {}
    /\ files = <<>> /\ fidx = 0 /\ parsed = <<>>
    /\ doc = Container("Document") /\ steps = <<>>
    /\ written = {} /\ echoed = <<>> /\ mmdc = "ok"

CallPreprocessImages ==
    /\ pc = "call"
    /\ call.fn = "preprocess_images"
    /\ result' = preprocess_images(call.tokens)
    /\ pc' = "return"
    /\ UNCHANGED <<call, files, fidx, tokens, parsed, doc, steps, written, echoed, fs, mmdc>>

CallPreprocessImagesAgain ==
    /\ pc = "return"
    /\ call.fn = "preprocess_images"
    /\ tokens' = preprocess_images(result)
    /\ pc' = "again"
    /\ UNCHANGED <<call, result, files, fidx, parsed, doc, steps, written, echoed, fs, mmdc>>

SpecImages == InitImages /\ [][CallPreprocessImages \/ CallPreprocessImagesAgain]_vars

IsImage(n) == n.type = "image"

\* C8: after one application of preprocess_images no image node that is a
\* direct child of a top-level token has a "url" key and the value it had is
\* held under "src" (its other keys, and every other node, are as before);
\* a second application returns a tree identical to the first result.
C8_ImagesIdempotent ==
    (pc \in {"return", "again"} /\ call.fn = "preprocess_images") =>
        /\ Len(result) = Len(call.tokens)
        /\ \A i \in 1..Len(result) :
              LET before == Get(call.tokens[i], "children", <<>>)
                  after == Get(result[i], "children", <<>>)
              IN /\ Len(after) = Len(before)
                 /\ DOMAIN result[i] = DOMAIN call.tokens[i]
                 /\ \A k \in DOMAIN result[i] \ {"children"} : result[i][k] = call.tokens[i][k]
                 /\ \A j \in 1..Len(after) :
                       IF IsImage(before[j]) /\ "attrs" \in DOMAIN before[j]
                          /\ "url" \in DOMAIN before[j].attrs
                       THEN /\ IsImage(after[j])
                            /\ "url" \notin DOMAIN after[j].attrs
                            /\ after[j].attrs.src = before[j].attrs.url
                            /\ \A k \in DOMAIN before[j].attrs \ {"url", "src"} :
                                  k \in DOMAIN after[j].attrs
                                  /\ after[j].attrs[k] = before[j].attrs[k]
                       ELSE after[j] = before[j]
        /\ pc = "again" => tokens = result

\* C8 witness: an image that had a "url" key was renamed by the first
\* application and the second application has run.
C8_Witness ==
    /\ pc = "again" /\ call.fn = "preprocess_images"
    /\ \E j \in 1..Len(call.tokens[1].children) :
          /\ IsImage(call.tokens[1].children[j])
          /\ "attrs" \in DOMAIN call.tokens[1].children[j]
          /\ "url" \in DOMAIN call.tokens[1].children[j].attrs
          /\ result[1].children[j].attrs.src = "pic.png"
          /\ "url" \notin DOMAIN tokens[1].children[j].attrs

----------------------------------------------------------------------------
(* Spec: main over a list of files, convert_file step by step              *)

\* Bound: the number of files of one invocation
MaxFiles == 2

FileNames == <<"a.md", "b.md", "c.md", "d.md">>

MermaidBlock == CodeToken(<<"x", NL>>, MERMAID)

MarkedQuote ==
    BlockQuote(<<Para(<<TextNode(<<"[">>), TextNode(<<"!", "n", "o", "t", "e", "]">>),
                        [type |-> "softbreak"], TextNode(<<"b">>)>>)>>)

\* What the parser returns for the input files of the model
Documents ==
    {<<Para(<<TextNode(<<"a">>)>>)>>,
     <<Para(<<ImageNode("url", "pic.png")>>), Para(<<TextNode(<<"a">>)>>)>>,
     <<Para(<<TextNode(<<"a">>), ImageNode("url", "pic.png")>>), Para(<<TextNode(<<"b">>)>>)>>,
     <<MermaidBlock, Para(<<TextNode(<<"a">>)>>)>>,
     <<MarkedQuote, CodeToken(<<"k", NL>>, <<"p", "y">>)>>,
     <<MarkedQuote, MermaidBlock, Para(<<ImageNode("url", "pic.png")>>)>>}

\* A file argument: whether the path exists and whether its output can be
\* written, and the tree the parser returns for its text
FileConditions == {"ok", "missing", "unwritable"}

FileLists ==
    UNION {{[i \in 1..n |-> [name |-> FileNames[i], cond |-> c[i], ast |-> a[i]]]
               : c \in [1..n -> FileConditions], a \in [1..n -> Documents]}
           : n \in 1..MaxFiles}

OutputName(f) == <<f.name, ".docx">>

Init ==
    /\ pc = "start"
    /\ files \in FileLists
    /\ fs \in FileSystems
    /\ mmdc \in {"ok", "missing"}
    /\ fidx = 0
    /\ tokens = <<>> /\ parsed = <<>>
    /\ doc = Container("Document") /\ steps = <<>>
    /\ written = {} /\ echoed = <<>>
    /\ call = [fn |-> "main"] /\ result = <<>>

\* click.Path(exists=True): a missing argument is a usage error raised while
\* the arguments are parsed, before main's body runs
ClickReject ==
    /\ pc = "start"
    /\ \E i \in 1..Len(files) : files[i].cond = "missing"
    /\ pc' = "usage_error"
    /\ UNCHANGED <<call, result, files, fidx, tokens, parsed, doc, steps, written, echoed, fs, mmdc>>

ClickAccept ==
    /\ pc = "start"
    /\ \A i \in 1..Len(files) : files[i].cond # "missing"
    /\ pc' = "loop"
    /\ fidx' = 1
    /\ UNCHANGED <<call, result, files, tokens, parsed, doc, steps, written, echoed, fs, mmdc>>

\* for f in files: the next call of convert_file, or the end of main
LoopNext ==
    /\ pc = "loop"
    /\ IF fidx > Len(files)
       THEN pc' = "exit" /\ UNCHANGED <<steps, tokens, parsed, doc>>
       ELSE /\ pc' = "parse" /\ steps' = <<>>
            /\ tokens' = <<>> /\ parsed' = <<>> /\ doc' = Container("Document")
    /\ UNCHANGED <<call, result, files, fidx, written, echoed, fs, mmdc>>

\* The order of the steps of convert_file
StageAfterRenderEarly(stage) ==
    CASE stage = "parse" -> "mermaid"
      [] stage = "mermaid" -> "alerts"
      [] stage = "alerts" -> "render"
      [] stage = "render" -> "images"
      [] stage = "images" -> "save"
      [] stage = "save" -> "echo"

StageAfter(stage) ==
    CASE stage = "parse" -> "mermaid"
      [] stage = "mermaid" -> "alerts"
      [] stage = "alerts" -> "images"
      [] stage = "images" -> "render"
      [] stage = "render" -> "save"
      [] stage = "save" -> "echo"

\* tokens = md(md_text)
Parse ==
    /\ pc = "parse"
    /\ tokens' = files[fidx].ast
    /\ parsed' = files[fidx].ast
    /\ steps' = Append(steps, "parse")
    /\ pc' = StageAfter("parse")
    /\ UNCHANGED <<call, result, files, fidx, doc, written, echoed, fs, mmdc>>

\* tokens = preprocess_mermaid(tokens, base_dir): subprocess.run(check=True)
\* raises when mmdc is missing or fails, and nothing catches it
Mermaid ==
    /\ pc = "mermaid"
    /\ IF mmdc # "ok" /\ \E i \in 1..Len(tokens) : IsMermaid(tokens[i])
       THEN pc' = "crashed" /\ UNCHANGED <<tokens, steps, fs>>
       ELSE /\ tokens' = preprocess_mermaid(tokens, BASE_DIR)
            /\ fs' = fs \cup MermaidOutputs(tokens)
            /\ steps' = Append(steps, "mermaid")
            /\ pc' = StageAfter("mermaid")
    /\ UNCHANGED <<call, result, files, fidx, parsed, doc, written, echoed, mmdc>>

\* tokens = preprocess_alerts(tokens)
Alerts ==
    /\ pc = "alerts"
    /\ tokens' = preprocess_alerts(tokens)
    /\ steps' = Append(steps, "alerts")
    /\ pc' = StageAfter("alerts")
    /\ UNCHANGED <<call, result, files, fidx, parsed, doc, written, echoed, fs, mmdc>>

\* tokens = preprocess_images(tokens)
Images ==
    /\ pc = "images"
    /\ tokens' = preprocess_images(tokens)
    /\ steps' = Append(steps, "images")
    /\ pc' = StageAfter("images")
    /\ UNCHANGED <<call, result, files, fidx, parsed, doc, written, echoed, fs, mmdc>>

\* doc = Document(); render_tokens(doc, tokens, base_dir)
Render ==
    /\ pc = "render"
    /\ doc' = render_tokens(Container("Document"), tokens, BASE_DIR)
    /\ steps' = Append(steps, "render")
    /\ pc' = IF doc'.err # NoErr THEN "crashed" ELSE StageAfter("render")
    /\ UNCHANGED <<call, result, files, fidx, tokens, parsed, written, echoed, fs, mmdc>>

\* doc.save(str(output_path))
Save ==
    /\ pc = "save"
    /\ IF files[fidx].cond = "unwritable"
       THEN pc' = "crashed" /\ UNCHANGED <<written, steps>>
       ELSE /\ written' = written \cup {OutputName(files[fidx])}
            /\ steps' = Append(steps, "save")
            /\ pc' = StageAfter("save")
    /\ UNCHANGED <<call, result, files, fidx, tokens, parsed, doc, echoed, fs, mmdc>>

\* click.echo(f"Converted: {f} -> {out}")
Echo ==
    /\ pc = "echo"
    /\ echoed' = Append(echoed, <<"Converted: ", files[fidx].name, " -> ", OutputName(files[fidx])>>)
    /\ fidx' = fidx + 1
    /\ pc' = "loop"
    /\ UNCHANGED <<call, result, files, tokens, parsed, doc, steps, written, fs, mmdc>>

Next ==
    \/ ClickReject \/ ClickAccept \/ LoopNext
    \/ Parse \/ Mermaid \/ Alerts \/ Images \/ Render \/ Save \/ Echo

Spec == Init /\ [][Next]_vars

MainEnded == pc \in {"exit", "crashed", "usage_error"}

----------------------------------------------------------------------------
(* Properties of Spec                                                      *)

\* The file main is working on, when there is one
InFile == fidx \in 1..Len(files) /\ pc \notin {"start", "usage_error", "loop", "exit"}

StepOrder == <<"parse", "mermaid", "alerts", "images", "render", "save">>

Done(step) == \E k \in 1..Len(steps) : steps[k] = step

IsPrefix(s, t) == Len(s) <= Len(t) /\ s = SubSeq(t, 1, Len(s))

\* C10: in every run of convert_file the steps so far are an initial part of
\* parse, mermaid, alerts, images, render, save; the tokens held after each
\* pass are that pass applied to the tokens of the pass before it, starting
\* from the parser's output (a marked blockquote as parsed becomes an alert,
\* an image synthesized for a diagram block is among the nodes the key
\* normalization has gone over); a document has content or is written only
\* when the three passes are among the steps done.
C10_FixedOrder ==
    /\ IsPrefix(steps, StepOrder)
    /\ InFile =>
        LET m == preprocess_mermaid(parsed, BASE_DIR)
            a == preprocess_alerts(m)
            n == preprocess_images(a)
        IN /\ Done("parse") => parsed = files[fidx].ast
           /\ (Done("parse") /\ ~Done("mermaid")) => tokens = parsed
           /\ (Done("mermaid") /\ ~Done("alerts")) => tokens = m
           /\ (Done("alerts") /\ ~Done("images")) => tokens = a
           /\ Done("images") => tokens = n
           /\ Done("images") =>
                \A i \in 1..Len(parsed) :
                    /\ IsMermaid(parsed[i]) =>
                         /\ tokens[i].type = "paragraph"
                         /\ DOMAIN tokens[i].children[1].attrs = {"src", "alt"}
                         /\ tokens[i].children[1].attrs.src = DiagramPngs[i]
                    /\ parsed[i] = MarkedQuote => tokens[i].type = "alert"
           /\ Done("render") => doc = render_tokens(Container("Document"), n, BASE_DIR)
           /\ (doc.body # <<>> \/ doc.err # NoErr) => Done("render")
           /\ OutputName(files[fidx]) \in written =>
                Done("save") /\ Done("mermaid") /\ Done("alerts") /\ Done("images")

\* A run that went through all six steps on a document with a marked
\* blockquote, a diagram block and an image
C10_Witness ==
    /\ pc = "echo"
    /\ steps = StepOrder
    /\ parsed = <<MarkedQuote, MermaidBlock, Para(<<ImageNode("url", "pic.png")>>)>>
    /\ tokens[1].type = "alert"
    /\ tokens[2].children[1].attrs.src = DiagramPngs[2]
    /\ tokens[3].children[1].attrs = [src |-> "pic.png"]
    /\ doc.body # <<>>
    /\ OutputName(files[fidx]) \in written

\* The image references of a top-level token that resolve to no file
MissingImages(token) ==
    IF token.type # "paragraph" THEN {}
    ELSE {Get(Get(c, "attrs", <<>>), "src", "") :
            c \in {token.children[j] : j \in {k \in 1..Len(token.children) :
                        /\ token.children[k].type = "image"
                        /\ Get(Get(token.children[k], "attrs", <<>>), "src", "") # ""
                        /\ resolve_image_path(token.children[k].attrs.src, BASE_DIR) \notin fs}}}

ImagesOf(token) ==
    IF token.type # "paragraph" THEN {}
    ELSE {j \in 1..Len(token.children) : token.children[j].type = "image"}

IsPlaceholderFor(el, url) ==
    /\ el.kind = "paragraph"
    /\ Len(el.runs) = 1
    /\ el.runs[1].text = <<"[Image not found: ", url, "]">>

\* C6: when the only image of a rendered top-level token resolves to a file
\* that does not exist, what the token contributes to the document holds
\* exactly one placeholder paragraph, whose text contains the reference as
\* written, and no picture; the token raises nothing; the tokens after it are
\* rendered as they would be on their own, right behind it; and the run goes
\* on to save the document, which is written unless the save itself fails.
C6_MissingImagePlaceholder ==
    (InFile /\ Done("render")) =>
        \A i \in 1..Len(tokens) :
            LET before == render_tokens(Container("Document"), SubSeq(tokens, 1, i - 1), BASE_DIR)
                after == render_tokens(Container("Document"), SubSeq(tokens, i + 1, Len(tokens)), BASE_DIR)
                segment == SubSeq(doc.body, Len(before.body) + 1, Len(doc.body) - Len(after.body))
            IN (before.err = NoErr /\ MissingImages(tokens[i]) # {} /\ Cardinality(ImagesOf(tokens[i])) = 1) =>
                 /\ \A url \in MissingImages(tokens[i]) :
                        Cardinality({k \in 1..Len(segment) : IsPlaceholderFor(segment[k], url)}) = 1
                 /\ \A k \in 1..Len(segment) : segment[k].kind # "picture"
                 /\ doc.body = (before.body \o segment) \o after.body
                 /\ doc.err = after.err
                 /\ after.err = NoErr =>
                      /\ pc \in {"save", "echo"} \/ (pc = "crashed" /\ files[fidx].cond = "unwritable")
                      /\ pc = "echo" => OutputName(files[fidx]) \in written

\* A saved document whose first token is an image that is not there and
\* whose second token was rendered after the placeholder
C6_Witness ==
    /\ pc = "echo"
    /\ <<BASE_DIR, "pic.png">> \notin fs
    /\ tokens = <<Para(<<ImageNode("src", "pic.png")>>), Para(<<TextNode(<<"a">>)>>)>>
    /\ Len(doc.body) = 2
    /\ IsPlaceholderFor(doc.body[1], "pic.png")
    /\ doc.body[2].runs[1].text = <<"a">>
    /\ doc.err = NoErr
    /\ OutputName(files[fidx]) \in written

\* Whether convert_file on this file alone returns: the file is there, the
\* diagram tool works if the file needs it, rendering raises nothing and the
\* output can be written
ConvertsAlone(f) ==
    /\ f.cond = "ok"
    /\ (\E i \in 1..Len(f.ast) : IsMermaid(f.ast[i])) => mmdc = "ok"
    /\ render_tokens(Container("Document"),
                     preprocess_images(preprocess_alerts(preprocess_mermaid(f.ast, BASE_DIR))),
                     BASE_DIR).err = NoErr

\* C1: when main has ended, every file of the invocation that converts on
\* its own has been written to the output directory, whatever happened to
\* the other files.
C1_FailuresAreIsolated ==
    MainEnded =>
        \A i \in 1..Len(files) : ConvertsAlone(files[i]) => OutputName(files[i]) \in written

----------------------------------------------------------------------------
(* SpecMermaid: preprocess_mermaid applied to a token list                 *)

\* Bound: the number of top-level tokens handed to preprocess_mermaid
MaxTokens == 2

MermaidInfos ==
    {MERMAID, MERMAID \o <<" ", "x">>, MERMAID \o <<"x">>, <<"x", " ">> \o MERMAID,
     <<"M", "e", "r", "m", "a", "i", "d">>, <<"p", "y">>, <<>>}

\* Top-level tokens: code blocks with and without an info string, a
\* paragraph, and a list item holding a diagram block below the top level
MermaidTokens ==
    {CodeToken(<<"x", NL>>, info) : info \in MermaidInfos}
    \cup {[type |-> "block_code", raw |-> <<"x", NL>>, attrs |-> <<>>],
          Para(<<TextNode(<<"a">>)>>),
          [type |-> "list", attrs |-> [ordered |-> FALSE],
           children |-> <<[type |-> "list_item",
                           children |-> <<CodeToken(<<"x", NL>>, MERMAID)>>]>>]}

MermaidInputs == UNION {[1..n -> MermaidTokens] : n \in 0..MaxTokens}

\* One call: the token list, and the positions whose diagram source mmdc
\* rejects with a non-zero exit status; mmdc itself is installed or not
InitMermaid ==
    /\ pc = "call"
    /\ \E toks \in MermaidInputs :
          call \in [fn : {"preprocess_mermaid"}, tokens : {toks},
                    rejected : SUBSET (1..Len(toks))]
    /\ mmdc \in {"ok", "missing"}
    /\ result = <<>>
    /\ fs = {}
    /\ files = <<>> /\ fidx = 0 /\ tokens = <<>> /\ parsed = <<>>
    /\ doc = Container("Document") /\ steps = <<>>
    /\ written = {} /\ echoed = <<>>

\* The loop of preprocess_mermaid: subprocess.run(check=True) raises at the
\* first diagram block mmdc cannot render (FileNotFoundError when mmdc is
\* missing, CalledProcessError on a non-zero exit), after the diagrams before
\* it were written; nothing catches it
CallPreprocessMermaid ==
    /\ pc = "call"
    /\ call.fn = "preprocess_mermaid"
    /\ LET toks == call.tokens
           failing == {i \in 1..Len(toks) :
                          IsMermaid(toks[i]) /\ (mmdc # "ok" \/ i \in call.rejected)}
           upto == IF failing = {} THEN Len(toks)
                   ELSE (CHOOSE i \in failing : \A j \in failing : i <= j) - 1
       IN /\ fs' = fs \cup MermaidOutputs(SubSeq(toks, 1, upto))
          /\ IF failing = {}
             THEN result' = preprocess_mermaid(toks, BASE_DIR) /\ pc' = "return"
             ELSE result' = result /\ pc' = "raised"
    /\ UNCHANGED <<call, files, fidx, tokens, parsed, doc, steps, written, echoed, mmdc>>

SpecMermaid == InitMermaid /\ [][CallPreprocessMermaid]_vars

\* A block_code token whose info string, after leading blanks, begins with
\* the word mermaid followed by a blank or by nothing
DiagramBlock(token) ==
    /\ token.type = "block_code"
    /\ "attrs" \in DOMAIN token /\ token.attrs # <<>>
    /\ LET info == token.attrs.info
       IN \E k \in 0..Len(info) :
             /\ \A j \in 1..k : info[j] = " "
             /\ Len(info) >= k + 7
             /\ SubSeq(info, k + 1, k + 7) = <<"m", "e", "r", "m", "a", "i", "d">>
             /\ (Len(info) = k + 7 \/ info[k + 8] = " ")

\* C12: when preprocess_mermaid has returned, the result is as long as the
\* input; at the position of each top-level diagram block stands a paragraph
\* whose only child is an image pointing at a file that exists now, did not
\* stand for any other position and is the image of no other block; every
\* other token is the input token.  A return means that no diagram block
\* met a missing or failing mmdc; when one did, the call was left by the
\* exception and there is no result.
C12_MermaidSubstitution ==
    (call.fn = "preprocess_mermaid" /\ pc # "call") =>
        LET toks == call.tokens
            unrendered == {i \in 1..Len(toks) :
                              DiagramBlock(toks[i]) /\ (mmdc = "missing" \/ i \in call.rejected)}
        IN /\ pc = "return" <=> unrendered = {}
           /\ pc = "raised" <=> unrendered # {}
           /\ pc = "raised" => result = <<>>
           /\ pc = "return" =>
                /\ Len(result) = Len(toks)
                /\ \A i \in 1..Len(toks) :
                      IF DiagramBlock(toks[i])
                      THEN /\ result[i].type = "paragraph"
                           /\ Len(result[i].children) = 1
                           /\ result[i].children[1].type = "image"
                           /\ <<result[i].children[1].attrs.src>> \in fs
                           /\ \A j \in 1..Len(toks) :
                                 (j # i /\ DiagramBlock(toks[j])) =>
                                    result[j].children[1].attrs.src
                                       # result[i].children[1].attrs.src
                      ELSE result[i] = toks[i]

\* Two diagram blocks (one with a word after "mermaid") were both replaced
C12_Witness ==
    /\ pc = "return" /\ call.fn = "preprocess_mermaid"
    /\ Len(call.tokens) = 2
    /\ call.tokens[1] = CodeToken(<<"x", NL>>, MERMAID \o <<" ", "x">>)
    /\ call.tokens[2] = CodeToken(<<"x", NL>>, MERMAID)
    /\ result[1].children[1].type = "image"
    /\ result[2].children[1].type = "image"
    /\ Cardinality(fs) = 2

\* A diagram block behind a rendered one met a failing mmdc: no result
C12_WitnessRaised ==
    /\ pc = "raised" /\ call.fn = "preprocess_mermaid"
    /\ mmdc = "ok" /\ call.rejected = {2}
    /\ DiagramBlock(call.tokens[1]) /\ DiagramBlock(call.tokens[2])
    /\ result = <<>>
    /\ Cardinality(fs) = 1

----------------------------------------------------------------------------
(* Python float arithmetic (IEEE 754 binary64) as calculate_image_dimensions *)
(* uses it.  A natural number too wide for a machine integer is a sequence of *)
(* bits, most significant first, without leading zeros (zero is <<>>); a    *)
(* positive float is [m, e] with value m * 2^e.                             *)

\* The width of a binary64 significand
MantissaBits == 53

Zeros(k) == [i \in 1..k |-> 0]

\* Without the leading zeros
Norm(b) ==
    IF \A i \in 1..Len(b) : b[i] = 0 THEN <<>>
    ELSE SubSeq(b, CHOOSE i \in 1..Len(b) : b[i] = 1 /\ \A j \in 1..(i - 1) : b[j] = 0, Len(b))

LastN(s, n) == SubSeq(s, Len(s) - n + 1, Len(s))

FrontN(s, n) == SubSeq(s, 1, Len(s) - n)

RECURSIVE TwoTo(_)
TwoTo(k) == IF k = 0 THEN 1 ELSE 2 * TwoTo(k - 1)

\* The powers of two below 2^31
PowersOfTwo == [k \in 0..30 |-> TwoTo(k)]

Pow2(k) == PowersOfTwo[k]

\* The w low bits of x
BitsW(x, w) == [i \in 1..w |-> (x \div Pow2(w - i)) % 2]

\* The number a bit sequence of at most 30 bits stands for
RECURSIVE Val(_)
Val(b) ==
    IF b = <<>> THEN 0
    ELSE IF Len(b) = 1 THEN b[1]
    ELSE Val(FrontN(b, Len(b) \div 2)) * Pow2(Len(b) \div 2) + Val(LastN(b, Len(b) \div 2))

\* a >= b
GE(a, b) ==
    \/ Len(a) > Len(b)
    \/ /\ Len(a) = Len(b)
       /\ LET d == {i \in 1..Len(a) : a[i] # b[i]}
          IN d = {} \/ a[CHOOSE i \in d : \A j \in d : i <= j] = 1

Pad(b, n) == Zeros(n - Len(b)) \o b

\* a - b - borrow for bit sequences of one length, 24 bits at a time from the
\* least significant end
RECURSIVE SubC(_, _, _)
SubC(a, b, borrow) ==
    IF Len(a) <= 24
    THEN BitsW((Val(a) - Val(b) - borrow) % Pow2(Len(a)), Len(a))
    ELSE LET x == Val(LastN(a, 24)) - Val(LastN(b, 24)) - borrow
         IN SubC(FrontN(a, 24), FrontN(b, 24), IF x < 0 THEN 1 ELSE 0)
            \o BitsW(x % Pow2(24), 24)

\* a - b, for a >= b
Sub(a, b) == Norm(SubC(a, Pad(b, Len(a)), 0))

RECURSIVE AddC(_, _, _)
AddC(a, b, carry) ==
    IF Len(a) <= 24
    THEN BitsW(Val(a) + Val(b) + carry, Len(a))
    ELSE LET x == Val(LastN(a, 24)) + Val(LastN(b, 24)) + carry
         IN AddC(FrontN(a, 24), FrontN(b, 24), x \div Pow2(24))
            \o BitsW(x % Pow2(24), 24)

\* a + b: both widened to one length with room for the carry
Add(a, b) ==
    LET n == (IF Len(a) > Len(b) THEN Len(a) ELSE Len(b)) + 1
    IN Norm(AddC(Pad(a, n), Pad(b, n), 0))

\* acc * 2^(hi-lo+1) + a * b[lo..hi], halving the range; the lower half is
\* computed before the upper half is entered
RECURSIVE MulRange(_, _, _, _, _)
MulRange(a, b, lo, hi, acc) ==
    IF lo > hi THEN acc
    ELSE IF lo = hi
    THEN IF b[lo] = 1 THEN Add(Norm(acc \o <<0>>), a) ELSE Norm(acc \o <<0>>)
    ELSE LET left == MulRange(a, b, lo, (lo + hi) \div 2, acc)
         IN IF Len(left) >= 0 THEN MulRange(a, b, (lo + hi) \div 2 + 1, hi, left) ELSE left

\* One step of long division: bring down a bit, subtract d if it fits
DivStep(st, bit, d) ==
    LET r1 == Norm(st.r \o <<bit>>)
    IN IF GE(r1, d)
       THEN [q |-> st.q \o <<1>>, r |-> Sub(r1, d)]
       ELSE [q |-> st.q \o <<0>>, r |-> r1]

\* The steps for the bits lo..hi of n, halving the range; the lower half is
\* computed before the upper half is entered
RECURSIVE DivRange(_, _, _, _, _)
DivRange(n, d, lo, hi, st) ==
    IF lo > hi THEN st
    ELSE IF lo = hi THEN DivStep(st, n[lo], d)
    ELSE LET left == DivRange(n, d, lo, (lo + hi) \div 2, st)
         IN IF Len(left.q) >= 0 /\ Len(left.r) >= 0
            THEN DivRange(n, d, (lo + hi) \div 2 + 1, hi, left) ELSE left

\* Quotient and remainder of n by d (d # 0)
DivMod(n, d) ==
    LET st == DivRange(n, d, 1, Len(n), [q |-> <<>>, r |-> <<>>])
    IN [q |-> Norm(st.q), r |-> st.r]

\* Round to nearest, ties to even, to MantissaBits bits: the bits kept and
\* the number of bits dropped.  sticky: a non-zero part lies below the bits
\* of q.
RoundTop(top, rest, sticky) ==
    IF rest[1] = 1 /\ (sticky \/ top[MantissaBits] = 1 \/ \E i \in 2..Len(rest) : rest[i] = 1)
    THEN [m |-> Add(top, <<1>>), d |-> Len(rest)]
    ELSE [m |-> top, d |-> Len(rest)]

RoundBits(q, sticky) ==
    IF Len(q) <= MantissaBits THEN [m |-> q, d |-> 0]
    ELSE RoundTop(SubSeq(q, 1, MantissaBits), SubSeq(q, MantissaBits + 1, Len(q)), sticky)

\* float(n) for 0 < n < 2^30: exact
FloatOf(n) == [m |-> Norm(BitsW(n, 30)), e |-> 0]

\* The zeros appended to the dividend so that the quotient has two bits
\* more than a significand
Scale(x, y) ==
    IF MantissaBits + 2 + Len(y.m) - Len(x.m) > 0
    THEN MantissaBits + 2 + Len(y.m) - Len(x.m) ELSE 0

Rounded(dm, e) == [m |-> RoundBits(dm.q, dm.r # <<>>).m, e |-> e + RoundBits(dm.q, dm.r # <<>>).d]

\* x / y
FloatDiv(x, y) == Rounded(DivMod(x.m \o Zeros(Scale(x, y)), y.m), x.e - y.e - Scale(x, y))

\* x * y
FloatMul(x, y) == Rounded([q |-> MulRange(y.m, x.m, 1, Len(x.m), <<>>), r |-> <<>>], x.e + y.e)

\* int(x): truncation
IntOf(x) ==
    IF x.e >= 0 THEN Val(x.m \o Zeros(x.e))
    ELSE IF Len(x.m) + x.e <= 0 THEN 0
    ELSE Val(SubSeq(x.m, 1, Len(x.m) + x.e))

MAX_IMAGE_WIDTH == 5486400
MAX_IMAGE_HEIGHT == 7315200

\* calculate_image_dimensions, on the pixel size DocxImage reads from the
\* file; aspect_ratio is computed before height, as in the code
calculate_image_dimensions(px_width, px_height, max_width, max_height) ==
    IF px_width = 0 \/ px_height = 0 THEN <<max_width, max_height>>
    ELSE LET aspect_ratio == FloatDiv(FloatOf(px_width), FloatOf(px_height))
             height == IntOf(FloatDiv(FloatOf(max_width), aspect_ratio))
         IN IF Len(aspect_ratio.m) > 0 /\ height > max_height
            THEN <<IntOf(FloatMul(FloatOf(max_height), aspect_ratio)), max_height>>
            ELSE <<max_width, height>>

----------------------------------------------------------------------------
(* SpecDims: calculate_image_dimensions applied to one image and one box   *)

\* Bound: the largest pixel width and height of the image
MaxPx == 24

\* The box add_image passes (in EMU), and a small one
Boxes == {<<MAX_IMAGE_WIDTH, MAX_IMAGE_HEIGHT>>, <<35, 14>>}

InitDims ==
    /\ pc = "call"
    /\ \E box \in Boxes :
          call \in [fn : {"calculate_image_dimensions"},
                    px_width : 0..MaxPx, px_height : 0..MaxPx,
                    max_width : {box[1]}, max_height : {box[2]}]
    /\ result = <<>>
    /\ fs = {}
    /\ files = <<>> /\ fidx = 0 /\ tokens = <<>> /\ parsed = <<>>
    /\ doc = Container("Document") /\ steps = <<>>
    /\ written = {} /\ echoed = <<>> /\ mmdc = "ok"

CallCalculateImageDimensions ==
    /\ pc = "call"
    /\ call.fn = "calculate_image_dimensions"
    /\ result' = calculate_image_dimensions(call.px_width, call.px_height,
                                            call.max_width, call.max_height)
    /\ pc' = "return"
    /\ UNCHANGED <<call, files, fidx, tokens, parsed, doc, steps, written, echoed, fs, mmdc>>

SpecDims == InitDims /\ [][CallCalculateImageDimensions]_vars

\* C13 (as claimed): for an image of w by h pixels the function returns the
\* box itself when w or h is 0; otherwise the box width with the height
\* floor(maxW*h/w) when that height is at most maxH, and the width
\* floor(maxH*w/h) with the box height when it is not; the returned width is
\* at most maxW and the returned height at most maxH.
C13_ImageDimensions ==
    (pc = "return" /\ call.fn = "calculate_image_dimensions") =>
        LET w == call.px_width
            h == call.px_height
            maxW == call.max_width
            maxH == call.max_height
        IN IF w = 0 \/ h = 0
           THEN result = <<maxW, maxH>>
           ELSE /\ IF (maxW * h) \div w <= maxH
                   THEN result = <<maxW, (maxW * h) \div w>>
                   ELSE result = <<(maxH * w) \div h, maxH>>
                /\ result[1] <= maxW
                /\ result[2] <= maxH

====
